---- MODULE Spec2Model ----
(***************************************************************************)
(* Zoom -> SharePoint recording transfer: main() in src/src/main.py with   *)
(* the two clients it drives (src/src/zoom_client.py,                      *)
(* src/src/sharepoint_client.py).  The program is single threaded; pc is   *)
(* the position of main() (or of the client method it is inside).  Every   *)
(* answer of a remote server, of the clock and of the local file system is *)
(* an input drawn with \E in the step that reads it.                       *)
(* Spec is the run of main(); PathSpec, LibrarySpec and TokenSpec follow   *)
(* create_date_folder_path, the choice of the library and the two token    *)
(* caches on their own, over the inputs they can be given.                 *)
(***************************************************************************)
EXTENDS Integers, Sequences, FiniteSets, TLC

\* ------------------------------------------------------------------ bounds
MaxPages == 2        \* pages one paginated listing may take
MaxFiles == 2        \* recording files the enumeration may return in total
MaxChunks == 2       \* chunks the largest downloaded file needs

\* ------------------------------------------------------- program constants
MiB == 1024 * 1024
small_file_limit == 4 * MiB
chunk_size == 10 * MiB
NumSegments == 3

\* the accounts the group may hold, in the order the source lists them
GroupMembers == <<"u1", "u2">>
\* the file names two recordings may be given
Names == {"a", "b"}
None == "None"

\* sizes a downloaded file may have: both sides of the 4 MiB threshold and
\* every number of chunks up to MaxChunks
Sizes ==
    {0, small_file_limit - 1, small_file_limit}
        \cup {(k - 1) * chunk_size + 1 : k \in 2..MaxChunks}

\* answers the destination gives to a folder creation and to a chunk
FolderStatuses == {201, 409, 500}
ChunkStatuses == {201, 202, 204, 500}

Min(a, b) == IF a < b THEN a ELSE b

VARIABLES
    download_only,       \* args.download_only
    pc,                  \* position of main()
    zoom_token,          \* ZoomClient.access_token is set
    sp_token,            \* SharePointClient.access_token is set
    site_id,             \* SharePointClient.site_id is set
    members,             \* get_group_members: members
    next_page_token,     \* get_group_members: next_page_token
    member_pages,        \* get_group_members: the page requests made and answered
    page_count,          \* pages requested by the listing loop in progress
    member_idx,          \* get_group_recordings: position of `for member`
    recordings,          \* get_user_recordings: recordings
    all_recordings,      \* insertion-ordered dict email -> meetings
    file_k,              \* files visited by the nested for loops of main()
    total_files, successful_uploads, failed_uploads,
    rec_file,            \* the RecordingFile being processed
    local_path,          \* its local path
    fs,                  \* paths that exist in the download directory
    file_size,           \* size of the file at local_path after its download
    uploaded_bytes,      \* _upload_large_file: uploaded_bytes
    response,            \* status of the last chunk / folder response
    seg,                 \* create_folder: index of the segment being created
    seg_answers,         \* create_folder: statuses answered to its requests
    chunks,              \* byte ranges <<start, end>> sent for this file
    log,                 \* external calls made in the current unit of work
    at_start,            \* the counters when the current file was taken up
    conflict_behavior,   \* conflict behaviour named by the file's upload request
    meeting_date,        \* the meeting's date, as a sequence of characters
    date_folder,         \* create_date_folder_path(meeting_date)
    sp_video_library,    \* configured name of the video library
    sp_audio_library,    \* configured name of the audio library
    file_extension,      \* rec_file's file_extension, a sequence of characters
    library_name,        \* the library chosen for the file
    now,                 \* datetime.now(), in seconds since the start of the run
    token_expiry         \* ZoomClient.token_expiry

zoomVars == <<zoom_token>>
spVars == <<sp_token, site_id>>
enumVars == <<members, next_page_token, member_pages, page_count, member_idx,
              recordings, all_recordings>>
countVars == <<total_files, successful_uploads, failed_uploads>>
fileVars == <<rec_file, local_path, file_size, at_start>>
upVars == <<uploaded_bytes, response, seg, seg_answers, chunks>>
pathVars == <<meeting_date, date_folder>>
libVars == <<sp_video_library, sp_audio_library, file_extension, library_name>>
clockVars == <<now, token_expiry>>
vars == <<download_only, pc, zoomVars, spVars, enumVars, file_k, countVars,
          fileVars, fs, upVars, log, pathVars, conflict_behavior, libVars, clockVars>>

Call(op, res) == [op |-> op, res |-> res]

\* a meeting is the sequence of its recording files; a file carries whether
\* it has a download_url
FileRecs == [url : BOOLEAN]
Meetings == {<<f>> : f \in FileRecs}

RECURSIVE Flatten(_)
Flatten(ms) == IF ms = <<>> THEN <<>> ELSE Head(ms) \o Flatten(Tail(ms))

RECURSIVE FilesOf(_)
FilesOf(d) == IF d = <<>> THEN <<>>
              ELSE Flatten(Head(d).meetings) \o FilesOf(Tail(d))

\* requests.Response.raise_for_status raises for 4xx and 5xx only
RaisesForStatus(status) == status >= 400 /\ status < 600

Init ==
    /\ download_only \in BOOLEAN
    /\ pc = "get_group_members"
    /\ zoom_token = FALSE
    /\ sp_token = FALSE
    /\ site_id = FALSE
    /\ members = <<>>
    /\ next_page_token = None
    /\ member_pages = <<>>
    /\ page_count = 0
    /\ member_idx = 0
    /\ recordings = <<>>
    /\ all_recordings = <<>>
    /\ file_k = 0
    /\ total_files = 0
    /\ successful_uploads = 0
    /\ failed_uploads = 0
    /\ rec_file = [url |-> FALSE]
    /\ local_path = None
    /\ fs = {}
    /\ file_size = 0
    /\ uploaded_bytes = 0
    /\ response = 0
    /\ seg = 0
    /\ seg_answers = <<>>
    /\ chunks = <<>>
    /\ log = <<>>
    /\ at_start = [succ |-> 0, fail |-> 0]
    /\ conflict_behavior = None
    /\ meeting_date = <<>>
    /\ date_folder = <<>>
    /\ sp_video_library = None
    /\ sp_audio_library = None
    /\ file_extension = <<>>
    /\ library_name = None
    /\ now = 0
    /\ token_expiry = 0

\* ZoomClient._get_access_token: the cached token is returned while it is
\* set and the clock is before token_expiry, otherwise a token exchange is
\* made; `expired` is the reading of the clock, `ok` the exchange's outcome.
ZoomExchanges(expired) == ~zoom_token \/ expired
ZoomTokenFails(expired, ok) == ZoomExchanges(expired) /\ ~ok

\* -------------------------------------------------------- get_group_members
\* the first acquisition of the source token happens here; nothing in main()
\* catches what get_group_recordings lets through
MembersPageAborts ==
    /\ pc = "get_group_members"
    /\ \E expired \in BOOLEAN, ok \in BOOLEAN, status \in {200, 500} :
        /\ ZoomTokenFails(expired, ok) \/ RaisesForStatus(status)
        /\ log' = IF ZoomTokenFails(expired, ok)
                  THEN Append(log, Call("zoom_auth", "error"))
                  ELSE Append(log, Call("members", "error"))
        /\ zoom_token' = IF ZoomTokenFails(expired, ok) THEN zoom_token ELSE TRUE
    /\ pc' = "aborted"
    /\ UNCHANGED <<pathVars, libVars, clockVars, conflict_behavior,
                   download_only, spVars, enumVars, file_k, countVars,
                   fileVars, fs, upVars>>

\* tokens a page of members may carry; the last page carries none, or the
\* empty string
PageTokens == {"t1", "t2"}
NoToken == {None, ""}

\* faulty variant: the token of the page before is not sent
PageParam_First(token) == None

\* `if next_page_token: params["next_page_token"] = next_page_token`: the
\* token the request carries (None: the parameter is absent)
PageParam(token) == IF token \in NoToken THEN None ELSE token

\* one page of get_group_members: `n` members, and `next` as next_page_token
MembersPage ==
    /\ pc = "get_group_members"
    /\ page_count < MaxPages
    /\ \E n \in 0..1, next \in PageTokens \cup NoToken :
        LET more == next \notin NoToken
            page == IF n = 1 THEN <<GroupMembers[Len(members) + 1]>> ELSE <<>>
        IN
        /\ more => page_count + 1 < MaxPages
        /\ Len(members) + n <= Len(GroupMembers)
        /\ member_pages' = Append(member_pages,
               [sent |-> PageParam(next_page_token), next |-> next, members |-> page])
        /\ next_page_token' = IF more THEN next ELSE None
        /\ members' = IF n = 1
                      THEN Append(members, GroupMembers[Len(members) + 1])
                      ELSE members
        /\ page_count' = IF more THEN page_count + 1 ELSE 0
        /\ pc' = IF more THEN "get_group_members" ELSE "get_group_recordings"
        /\ member_idx' = IF more THEN member_idx ELSE 1
    /\ zoom_token' = TRUE
    /\ log' = IF pc' = "get_group_members"
              THEN Append(log, Call("members", "ok")) ELSE <<>>
    /\ UNCHANGED <<pathVars, libVars, clockVars, conflict_behavior,
                   download_only, spVars, recordings, all_recordings, file_k,
                   countVars, fileVars, fs, upVars>>

\* ---------------------------------------------------- get_group_recordings
\* `for member in members`: the next member's listing starts, or the loop is
\* over and main() tests `if not all_recordings`
NextMember ==
    /\ pc = "get_group_recordings"
    /\ IF member_idx <= Len(members)
       THEN /\ pc' = "get_user_recordings"
            /\ recordings' = <<>>
            /\ page_count' = 0
            /\ log' = <<>>
            /\ UNCHANGED <<file_k, members, member_idx>>
       ELSE \* get_group_recordings returns and its locals are gone
            /\ pc' = IF all_recordings = <<>> THEN "no_recordings" ELSE "file_loop"
            /\ file_k' = 0
            /\ log' = <<>>
            /\ members' = <<>>
            /\ member_idx' = 0
            /\ recordings' = <<>>
            /\ page_count' = 0
    /\ member_pages' = <<>>
    /\ UNCHANGED <<pathVars, libVars, clockVars, conflict_behavior,
                   download_only, zoomVars, spVars,
                   next_page_token, all_recordings, countVars, fileVars, fs, upVars>>

\* get_user_recordings has returned `recs` to get_group_recordings, which
\* keeps them under the member's email when there are any and sleeps
Listed(recs) ==
    IF recs # <<>>
    THEN Append(all_recordings, [email |-> members[member_idx], meetings |-> recs])
    ELSE all_recordings

\* faulty variant: get_group_recordings lets the member's exception through
MemberSkipped_Abort(auth) ==
    /\ log' = Append(log, IF auth THEN Call("zoom_auth", "error")
                                  ELSE Call("recordings", "error"))
    /\ zoom_token' = IF auth THEN zoom_token ELSE TRUE
    /\ pc' = "aborted"
    /\ UNCHANGED <<member_idx, recordings, page_count, all_recordings>>

\* one page of get_user_recordings that ends the member's listing with an
\* exception: get_group_recordings prints it and continues with the next
\* member
MemberSkipped(auth) ==
    /\ log' = Append(log, IF auth THEN Call("zoom_auth", "error")
                                  ELSE Call("recordings", "error"))
    /\ zoom_token' = IF auth THEN zoom_token ELSE TRUE
    /\ member_idx' = member_idx + 1
    /\ pc' = "get_group_recordings"
    /\ UNCHANGED <<recordings, page_count, all_recordings>>

\* the 404 of a page: `break`, and what was collected so far is returned;
\* get_group_recordings keeps it and sleeps
MemberNotFound ==
    /\ log' = log \o <<Call("recordings", "notfound"), Call("sleep", "ok")>>
    /\ zoom_token' = TRUE
    /\ all_recordings' = Listed(recordings)
    /\ member_idx' = member_idx + 1
    /\ pc' = "get_group_recordings"
    /\ UNCHANGED <<recordings, page_count>>

RecordingsPageFails ==
    /\ pc = "get_user_recordings"
    /\ \E expired \in BOOLEAN, ok \in BOOLEAN, status \in {200, 404, 500} :
        IF ZoomTokenFails(expired, ok) THEN MemberSkipped(TRUE)
        ELSE /\ status # 200
             /\ IF status = 404 THEN MemberNotFound ELSE MemberSkipped(FALSE)
    /\ UNCHANGED <<pathVars, libVars, clockVars, conflict_behavior,
                   download_only, spVars, members,
                   next_page_token, member_pages, file_k, countVars, fileVars, fs,
                   upVars>>

RecordingsPage ==
    /\ pc = "get_user_recordings"
    /\ page_count < MaxPages
    /\ \E page \in {<<>>} \cup {<<m>> : m \in Meetings}, more \in BOOLEAN :
        LET recs == recordings \o page IN
        /\ Len(FilesOf(all_recordings)) + Len(Flatten(recs)) <= MaxFiles
        /\ more => page_count + 1 < MaxPages
        /\ IF more
           THEN /\ recordings' = recs
                /\ page_count' = page_count + 1
                /\ log' = Append(log, Call("recordings", "ok"))
                /\ UNCHANGED <<pc, member_idx, all_recordings>>
           ELSE /\ all_recordings' = Listed(recs)
                /\ recordings' = recs
                /\ member_idx' = member_idx + 1
                /\ pc' = "get_group_recordings"
                /\ log' = log \o <<Call("recordings", "ok"), Call("sleep", "ok")>>
                /\ UNCHANGED page_count
    /\ zoom_token' = TRUE
    /\ UNCHANGED <<pathVars, libVars, clockVars, conflict_behavior,
                   download_only, spVars, members,
                   next_page_token, member_pages, file_k, countVars, fileVars, fs,
                   upVars>>

\* ------------------------------------------------------- main(): the loops
AllFiles == FilesOf(all_recordings)

\* `for rec_file in recording_files`, over every meeting of every user; when
\* the loops are over the summary is printed
NextFile ==
    /\ pc = "file_loop"
    /\ IF file_k < Len(AllFiles)
       THEN /\ file_k' = file_k + 1
            /\ total_files' = total_files + 1
            /\ rec_file' = AllFiles[file_k + 1]
            /\ at_start' = [succ |-> successful_uploads, fail |-> failed_uploads]
            /\ file_size' = 0
            /\ uploaded_bytes' = 0
            /\ response' = 0
            /\ seg' = 0
            /\ seg_answers' = <<>>
            /\ chunks' = <<>>
            /\ log' = <<>>
            /\ conflict_behavior' = None
            /\ pc' = "check_url"
       ELSE /\ pc' = "summary"
            /\ UNCHANGED <<file_k, total_files, rec_file, at_start, file_size,
                           upVars, log, conflict_behavior>>
    /\ UNCHANGED <<pathVars, libVars, clockVars,
                   download_only, zoomVars, spVars, enumVars,
                   successful_uploads, failed_uploads, local_path, fs>>

\* faulty variant: the test for a missing download URL is lost
SkipFile_Never(f) == FALSE

\* `if not download_url: continue`
SkipFile(f) == ~f.url

\* the file is skipped, or its filename and local path are built; the name
\* is a function of the meeting's date and topic and of the file's recording
\* type and extension, so two files may get the same one
CheckUrl ==
    /\ pc = "check_url"
    /\ IF SkipFile(rec_file)
       THEN /\ pc' = "file_loop"
            /\ UNCHANGED local_path
       ELSE /\ pc' = "zoom_token"
            /\ \E name \in Names : local_path' = name
    /\ UNCHANGED <<pathVars, libVars, clockVars, conflict_behavior,
                   download_only, zoomVars, spVars, enumVars, file_k, countVars,
                   rec_file, file_size, at_start, fs, upVars, log>>

\* faulty variant: no `try` around the processing of a file
Raise_Abort(call) ==
    /\ log' = Append(log, call)
    /\ pc' = "aborted"

\* an exception inside the `try` of main() reaches `except Exception`
Raise(call) ==
    /\ log' = Append(log, call)
    /\ pc' = "except"

\* access_token = zoom._get_access_token()
ZoomToken ==
    /\ pc = "zoom_token"
    /\ \E expired \in BOOLEAN, ok \in BOOLEAN :
        IF ZoomTokenFails(expired, ok)
        THEN /\ Raise(Call("zoom_auth", "error"))
             /\ UNCHANGED zoom_token
        ELSE /\ zoom_token' = TRUE
             /\ log' = Append(log, Call("zoom_token", "ok"))
             /\ pc' = "download"
    /\ UNCHANGED <<pathVars, libVars, clockVars, conflict_behavior,
                   download_only, spVars, enumVars, file_k, countVars,
                   fileVars, fs, upVars>>

\* faulty variant: the upload follows the download at once
AfterDownload_NoFolder(only) == IF only THEN "file_loop" ELSE "up_site"

\* `if download_only: ... else:` after the download: the file is done, or
\* create_folder is called
AfterDownload(only) == IF only THEN "file_loop" ELSE "cf_site"

\* zoom.download_recording_file, and in download-only mode the success that
\* follows it.  "refused": the request fails before the file is opened;
\* "broken": the stream fails after open(output_path, 'wb');
\* "done": the whole body, of `size` bytes, is written.
Download ==
    /\ pc = "download"
    /\ \E outcome \in {"refused", "broken", "done"}, size \in Sizes :
        /\ outcome # "done" => size = 0
        /\ fs' = IF outcome = "refused" THEN fs ELSE fs \cup {local_path}
        /\ file_size' = size
        /\ IF outcome # "done"
           THEN /\ Raise(Call("download", "error"))
                /\ UNCHANGED successful_uploads
           ELSE /\ log' = Append(log, Call("download", "ok"))
                /\ successful_uploads' =
                       IF download_only THEN successful_uploads + 1
                       ELSE successful_uploads
                /\ pc' = AfterDownload(download_only)
    /\ UNCHANGED <<pathVars, libVars, clockVars, conflict_behavior,
                   download_only, zoomVars, spVars, enumVars, file_k,
                   total_files, failed_uploads, rec_file, local_path, at_start,
                   upVars>>

\* ------------------------------------------------------- SharePointClient
\* SharePointClient._get_access_token: once a token is held it is returned;
\* otherwise a token exchange is made, and `ok` is its outcome
SpTokenFails(ok) == ~sp_token /\ ~ok

\* an exception inside create_folder reaches the inner `except Exception:
\* pass` of main(), which goes on to the upload
FolderRaise(call) ==
    /\ log' = log \o <<call, Call("create_folder", "error")>>
    /\ pc' = "up_site"

\* _get_site_id, from create_folder (inFolder) or from upload_file
GetSiteId(inFolder, next) ==
    IF site_id
    THEN /\ pc' = next
         /\ UNCHANGED <<spVars, log>>
    ELSE \E ok \in BOOLEAN, found \in BOOLEAN :
        LET call == IF SpTokenFails(ok) THEN Call("sp_auth", "error")
                    ELSE Call("site", IF found THEN "ok" ELSE "error") IN
        /\ sp_token' = (sp_token \/ ok)
        /\ site_id' = (~SpTokenFails(ok) /\ found)
        /\ IF site_id'
           THEN /\ log' = Append(log, call)
                /\ pc' = next
           ELSE IF inFolder THEN FolderRaise(call) ELSE Raise(call)

\* _get_drive_id: the drives of the site are listed and the library looked
\* up by name; `found` is whether the request succeeds and names the library
GetDriveId(inFolder, next) ==
    \E ok \in BOOLEAN, found \in BOOLEAN :
        LET call == IF SpTokenFails(ok) THEN Call("sp_auth", "error")
                    ELSE Call("drives", IF found THEN "ok" ELSE "error") IN
        /\ sp_token' = (sp_token \/ ok)
        /\ UNCHANGED site_id
        /\ IF ~SpTokenFails(ok) /\ found
           THEN /\ log' = Append(log, call)
                /\ pc' = next
           ELSE IF inFolder THEN FolderRaise(call) ELSE Raise(call)

\* ----------------------------------------------------------- create_folder
FolderSiteId ==
    /\ pc = "cf_site"
    /\ GetSiteId(TRUE, "cf_drive")
    /\ UNCHANGED <<pathVars, libVars, clockVars, conflict_behavior,
                   download_only, zoomVars, enumVars, file_k, countVars,
                   fileVars, fs, upVars>>

FolderDriveId ==
    /\ pc = "cf_drive"
    /\ GetDriveId(TRUE, "cf_segment")
    /\ seg' = IF pc' = "cf_segment" THEN 1 ELSE 0
    /\ UNCHANGED <<pathVars, libVars, clockVars, conflict_behavior,
                   download_only, zoomVars, enumVars, file_k, countVars,
                   fileVars, fs, uploaded_bytes, response, seg_answers, chunks>>

\* faulty variant: the conflict answer is not set apart and raises like any
\* other 4xx
FolderAnswer_ConflictRaises(status) ==
    IF status \notin {200, 201} /\ RaisesForStatus(status) THEN "raise"
    ELSE "continue"

\* what create_folder does with the answer to one segment's request
FolderAnswer(status) ==
    IF status = 409 THEN "continue"
    ELSE IF status \notin {200, 201} /\ RaisesForStatus(status) THEN "raise"
    ELSE "continue"

\* `return {"status": "created", "path": folder_path}`, whatever the
\* segments answered
FolderResult(answers) == "created"

\* one turn of `for i, part in enumerate(parts)`: the POST of one segment
\* under the path of the segments before it
FolderSegment ==
    /\ pc = "cf_segment"
    /\ \E status \in FolderStatuses :
        /\ seg_answers' = Append(seg_answers, status)
        /\ IF FolderAnswer(status) = "raise"
           THEN /\ FolderRaise(Call("mkdir", "error"))
                /\ seg' = 0
           ELSE /\ log' = Append(log, Call("mkdir", "ok"))
                /\ seg' = IF seg < NumSegments THEN seg + 1 ELSE 0
                /\ pc' = IF seg < NumSegments THEN "cf_segment" ELSE "up_site"
    /\ UNCHANGED <<pathVars, libVars, clockVars, conflict_behavior,
                   download_only, zoomVars, spVars, enumVars, file_k, countVars,
                   fileVars, fs, uploaded_bytes, response, chunks>>

\* ------------------------------------------------------------- upload_file
\* what create_folder was answered is forgotten when upload_file starts
UploadSiteId ==
    /\ pc = "up_site"
    /\ GetSiteId(FALSE, "up_drive")
    /\ seg_answers' = <<>>
    /\ UNCHANGED <<pathVars, libVars, clockVars, conflict_behavior,
                   download_only, zoomVars, enumVars, file_k, countVars,
                   fileVars, fs, uploaded_bytes, response, seg, chunks>>

\* faulty variant: a file of exactly 4 MiB takes the single-request upload
UseSmallUpload_Inclusive(size) == size <= small_file_limit

\* `if file_size < 4 * 1024 * 1024`
UseSmallUpload(size) == size < small_file_limit

\* the drive is resolved, os.path.getsize is read and the size decides
UploadDriveId ==
    /\ pc = "up_drive"
    /\ GetDriveId(FALSE, IF UseSmallUpload(file_size) THEN "up_small"
                         ELSE "up_session")
    /\ UNCHANGED <<pathVars, libVars, clockVars, conflict_behavior,
                   download_only, zoomVars, enumVars, file_k, countVars,
                   fileVars, fs, upVars>>

\* the PUT of _upload_small_file goes to ...:/content with an Authorization
\* header and the body only: it names no conflict behaviour, and the server
\* applies its default to it
small_upload_conflict == "unset"
\* the body of the createUploadSession request:
\* "@microsoft.graph.conflictBehavior": "rename"
session_conflict == "rename"

\* _upload_small_file: one PUT of the whole body to the content endpoint;
\* the item it answers with has an id
UploadSmallFile ==
    /\ pc = "up_small"
    /\ \E ok \in BOOLEAN :
        IF ok THEN /\ log' = Append(log, Call("content", "ok"))
                   /\ pc' = "up_metadata"
        ELSE Raise(Call("content", "error"))
    /\ conflict_behavior' = small_upload_conflict
    /\ UNCHANGED <<pathVars, libVars, clockVars,
                   download_only, zoomVars, spVars, enumVars, file_k, countVars,
                   fileVars, fs, upVars>>

\* _create_upload_session, and the start of the chunk loop
CreateUploadSession ==
    /\ pc = "up_session"
    /\ \E ok \in BOOLEAN :
        IF ok THEN /\ log' = Append(log, Call("session", "ok"))
                   /\ pc' = "up_chunk"
        ELSE Raise(Call("session", "error"))
    /\ uploaded_bytes' = 0
    /\ conflict_behavior' = session_conflict
    /\ UNCHANGED <<pathVars, libVars, clockVars,
                   download_only, zoomVars, spVars, enumVars, file_k, countVars,
                   fileVars, fs, response, seg, seg_answers, chunks>>

\* faulty variant: the last chunk is not cut at the end of the file
ChunkEnd_NoMin(uploaded, size) == uploaded + chunk_size

\* chunk_end = min(uploaded_bytes + chunk_size, file_size)
ChunkEnd(uploaded, size) == Min(uploaded + chunk_size, size)

\* `if response.status_code not in [200, 201, 202]: response.raise_for_status()`
ChunkRaises(status) == status \notin {200, 201, 202} /\ RaisesForStatus(status)

\* `return response.json()` after the loop, and `result.get("id")`: the item
\* of a 200/201 has an id, the 202 body (the next expected ranges) has none,
\* and a 204 has no body, so that json() raises
ResultOf(status) ==
    IF status \in {200, 201} THEN "item"
    ELSE IF status = 204 THEN "raise" ELSE "no_id"

\* one turn of `while uploaded_bytes < file_size`: the PUT of one chunk, and
\* after the last one the return to upload_file
UploadChunk ==
    /\ pc = "up_chunk"
    /\ uploaded_bytes < file_size
    /\ \E status \in ChunkStatuses :
        LET chunk_start == uploaded_bytes
            chunk_end == ChunkEnd(uploaded_bytes, file_size)
            res == IF status \in {200, 201, 202} THEN "ok"
                   ELSE IF ChunkRaises(status) THEN "error" ELSE "odd"
        IN
        /\ chunks' = Append(chunks, <<chunk_start, chunk_end>>)
        /\ response' = status
        /\ IF ChunkRaises(status)
           THEN /\ Raise(Call("chunk", "error"))
                /\ UNCHANGED uploaded_bytes
           ELSE /\ uploaded_bytes' = chunk_end
                /\ IF chunk_end < file_size
                   THEN /\ log' = Append(log, Call("chunk", res))
                        /\ pc' = "up_chunk"
                   ELSE IF ResultOf(status) = "raise"
                   THEN /\ log' = log \o <<Call("chunk", res), Call("json", "error")>>
                        /\ pc' = "except"
                   ELSE /\ log' = Append(log, Call("chunk", res))
                        /\ pc' = IF ResultOf(status) = "item"
                                 THEN "up_metadata" ELSE "remove"
    /\ UNCHANGED <<pathVars, libVars, clockVars, conflict_behavior,
                   download_only, zoomVars, spVars, enumVars, file_k, countVars,
                   fileVars, fs, seg, seg_answers>>

\* _update_file_metadata: the PATCH of the list item's fields
UpdateFileMetadata ==
    /\ pc = "up_metadata"
    /\ \E ok \in BOOLEAN :
        IF ok THEN /\ log' = Append(log, Call("metadata", "ok"))
                   /\ pc' = "remove"
        ELSE Raise(Call("metadata", "error"))
    /\ UNCHANGED <<pathVars, libVars, clockVars, conflict_behavior,
                   download_only, zoomVars, spVars, enumVars, file_k, countVars,
                   fileVars, fs, upVars>>

\* ------------------------------------------------- main(): after the upload
\* os.remove(local_path) and successful_uploads += 1
RemoveLocal ==
    /\ pc = "remove"
    /\ \E ok \in BOOLEAN :
        IF ok THEN /\ fs' = fs \ {local_path}
                   /\ log' = Append(log, Call("remove", "ok"))
                   /\ successful_uploads' = successful_uploads + 1
                   /\ pc' = "file_loop"
        ELSE /\ Raise(Call("remove", "error"))
             /\ UNCHANGED <<fs, successful_uploads>>
    /\ UNCHANGED <<pathVars, libVars, clockVars, conflict_behavior,
                   download_only, zoomVars, spVars, enumVars, file_k,
                   total_files, failed_uploads, fileVars, upVars>>

\* faulty variants: the cleanup ignores the mode; the cleanup is lost
CleanupWanted_AnyMode(only, exists) == exists
CleanupWanted_Never(only, exists) == FALSE

\* `if not download_only and os.path.exists(local_path)`
CleanupWanted(only, exists) == ~only /\ exists

\* `except Exception as e`: the failure is counted and the partial download
\* removed; a failure of that removal is swallowed
ExceptHandler ==
    /\ pc = "except"
    /\ failed_uploads' = failed_uploads + 1
    /\ IF CleanupWanted(download_only, local_path \in fs)
       THEN \E ok \in BOOLEAN :
            /\ fs' = IF ok THEN fs \ {local_path} ELSE fs
            /\ log' = Append(log, Call("remove", IF ok THEN "ok" ELSE "error"))
       ELSE UNCHANGED <<fs, log>>
    /\ pc' = "file_loop"
    /\ UNCHANGED <<pathVars, libVars, clockVars, conflict_behavior,
                   download_only, zoomVars, spVars, enumVars, file_k,
                   total_files, successful_uploads, fileVars, upVars>>

Next ==
    \/ MembersPageAborts
    \/ MembersPage
    \/ NextMember
    \/ RecordingsPageFails
    \/ RecordingsPage
    \/ NextFile
    \/ CheckUrl
    \/ ZoomToken
    \/ Download
    \/ FolderSiteId
    \/ FolderDriveId
    \/ FolderSegment
    \/ UploadSiteId
    \/ UploadDriveId
    \/ UploadSmallFile
    \/ CreateUploadSession
    \/ UploadChunk
    \/ UpdateFileMetadata
    \/ RemoveLocal
    \/ ExceptHandler

Spec == Init /\ [][Next]_vars

\* main() is one sequential procedure and every call it makes returns or
\* raises: whenever a step is possible the program takes one
FairSpec == Spec /\ WF_vars(Next)

\* -------------------------------------------------- create_date_folder_path
\* Strings are sequences of characters.  The date of a meeting is the part of
\* its start_time before the "T", which the source sends as YYYY-MM-DD.
Digit(n) == <<"0", "1", "2", "3", "4", "5", "6", "7", "8", "9">>[n + 1]
Pad2(n) == <<Digit((n \div 10) % 10), Digit(n % 10)>>
Pad4(n) == <<Digit((n \div 1000) % 10), Digit((n \div 100) % 10)>> \o Pad2(n % 100)
IsoDate(y, m, d) == Pad4(y) \o <<"-">> \o Pad2(m) \o <<"-">> \o Pad2(d)
Years == {1999, 2025}
Days == {1, 12, 31}
Dates == {IsoDate(y, m, d) : y \in Years, m \in 1..12, d \in Days}

\* the Python slice s[a:b]
Slice(str, a, b) == SubSeq(str, a + 1, Min(b, Len(str)))

months ==
    <<"0", "1">> :> "January" @@ <<"0", "2">> :> "February" @@
    <<"0", "3">> :> "March" @@ <<"0", "4">> :> "April" @@
    <<"0", "5">> :> "May" @@ <<"0", "6">> :> "June" @@
    <<"0", "7">> :> "July" @@ <<"0", "8">> :> "August" @@
    <<"0", "9">> :> "September" @@ <<"1", "0">> :> "October" @@
    <<"1", "1">> :> "November" @@ <<"1", "2">> :> "December"

\* faulty variant: the table is never hit
get_month_name_Unknown(month_num) == "Unknown"

\* months.get(month_num, "Unknown")
get_month_name(month_num) ==
    IF month_num \in DOMAIN months THEN months[month_num] ELSE "Unknown"

\* f"{year}/{month} - {month_name}/{meeting_date_str}"; the month's name is
\* kept as one element of the sequence
create_date_folder_path(meeting_date_str) ==
    LET year == Slice(meeting_date_str, 0, 4)
        month == Slice(meeting_date_str, 5, 7)
        month_name == get_month_name(month)
    IN year \o <<"/">> \o month \o <<" ", "-", " ">> \o <<month_name>>
            \o <<"/">> \o meeting_date_str

\* main() outside download-only mode, holding a meeting and about to compute
\* the folder of one of its files
PathInit ==
    /\ download_only = FALSE
    /\ pc = "date_folder"
    /\ zoom_token = TRUE
    /\ sp_token = FALSE
    /\ site_id = FALSE
    /\ members = <<>>
    /\ next_page_token = None
    /\ member_pages = <<>>
    /\ page_count = 0
    /\ member_idx = 0
    /\ recordings = <<>>
    /\ all_recordings = <<>>
    /\ file_k = 0
    /\ total_files = 0
    /\ successful_uploads = 0
    /\ failed_uploads = 0
    /\ rec_file = [url |-> TRUE]
    /\ local_path = None
    /\ fs = {}
    /\ file_size = 0
    /\ uploaded_bytes = 0
    /\ response = 0
    /\ seg = 0
    /\ seg_answers = <<>>
    /\ chunks = <<>>
    /\ log = <<>>
    /\ at_start = [succ |-> 0, fail |-> 0]
    /\ conflict_behavior = None
    /\ meeting_date \in Dates
    /\ date_folder = <<>>
    /\ sp_video_library = None
    /\ sp_audio_library = None
    /\ file_extension = <<>>
    /\ library_name = None
    /\ now = 0
    /\ token_expiry = 0

\* date_folder = create_date_folder_path(meeting_date)
ComputeDateFolder ==
    /\ pc = "date_folder"
    /\ date_folder' = create_date_folder_path(meeting_date)
    /\ pc' = "date_folder_done"
    /\ UNCHANGED <<libVars, clockVars, conflict_behavior, download_only, zoomVars,
                   spVars, enumVars,
                   file_k, countVars, fileVars, fs, upVars, log, meeting_date>>

\* `for meeting in meetings`: the next meeting, with its own date
NextMeetingDate ==
    /\ pc = "date_folder_done"
    /\ meeting_date' \in Dates
    /\ pc' = "date_folder"
    /\ UNCHANGED <<libVars, clockVars, conflict_behavior, download_only, zoomVars,
                   spVars, enumVars,
                   file_k, countVars, fileVars, fs, upVars, log, date_folder>>

PathNext ==
    \/ ComputeDateFolder
    \/ NextMeetingDate

PathSpec == PathInit /\ [][PathNext]_vars

\* ------------------------------------------------------- library selection
\* str.lower(), for the letters that file extensions are written with here
LowerOf ==
    "M" :> "m" @@ "P" :> "p" @@ "A" :> "a" @@ "V" :> "v" @@ "T" :> "t" @@
    "X" :> "x"

\* faulty variant: the extension is compared as it is written
LowerChar_Identity(c) == c

LowerChar(c) == IF c \in DOMAIN LowerOf THEN LowerOf[c] ELSE c
lower(str) == [i \in DOMAIN str |-> LowerChar(str[i])]

\* the extensions a recording file may carry: these, in any mix of cases
BaseExtensions ==
    {<<"m", "p", "4">>, <<"m", "4", "a">>, <<"v", "t", "t">>, <<"t", "x", "t">>,
     <<"m", "p", "3">>, <<>>}
UpperChar(c) ==
    IF \E u \in DOMAIN LowerOf : LowerOf[u] = c
    THEN CHOOSE u \in DOMAIN LowerOf : LowerOf[u] = c
    ELSE c
Cased(ext, upper) ==
    [i \in DOMAIN ext |-> IF i \in upper THEN UpperChar(ext[i]) ELSE ext[i]]
Extensions == {Cased(ext, upper) : ext \in BaseExtensions, upper \in SUBSET (1..3)}
LibraryNames == {"Zoom Videos", "Zoom Audio"}

\* `if file_extension.lower() == "mp4": ... elif file_extension.lower() in
\* ["m4a", "vtt"]: ... else: ...`
LibraryName(extension, video_library, audio_library) ==
    IF lower(extension) = <<"m", "p", "4">> THEN video_library
    ELSE IF lower(extension) \in {<<"m", "4", "a">>, <<"v", "t", "t">>}
    THEN audio_library
    ELSE video_library

\* main() outside download-only mode, configured with its two libraries and
\* holding a recording file with a download URL
LibraryInit ==
    /\ download_only = FALSE
    /\ pc = "library"
    /\ zoom_token = TRUE
    /\ sp_token = FALSE
    /\ site_id = FALSE
    /\ members = <<>>
    /\ next_page_token = None
    /\ member_pages = <<>>
    /\ page_count = 0
    /\ member_idx = 0
    /\ recordings = <<>>
    /\ all_recordings = <<>>
    /\ file_k = 0
    /\ total_files = 0
    /\ successful_uploads = 0
    /\ failed_uploads = 0
    /\ rec_file = [url |-> TRUE]
    /\ local_path = None
    /\ fs = {}
    /\ file_size = 0
    /\ uploaded_bytes = 0
    /\ response = 0
    /\ seg = 0
    /\ seg_answers = <<>>
    /\ chunks = <<>>
    /\ log = <<>>
    /\ at_start = [succ |-> 0, fail |-> 0]
    /\ conflict_behavior = None
    /\ meeting_date = <<>>
    /\ date_folder = <<>>
    /\ sp_video_library \in LibraryNames
    /\ sp_audio_library \in LibraryNames
    /\ file_extension \in Extensions
    /\ library_name = None
    /\ now = 0
    /\ token_expiry = 0

\* the library is chosen for the file at hand
SelectLibrary ==
    /\ pc = "library"
    /\ library_name' = LibraryName(file_extension, sp_video_library, sp_audio_library)
    /\ pc' = "library_done"
    /\ UNCHANGED <<pathVars, clockVars, conflict_behavior, download_only, zoomVars,
                   spVars, enumVars, file_k, countVars, fileVars, fs, upVars, log,
                   sp_video_library, sp_audio_library, file_extension>>

\* `for rec_file in recording_files`: the next file, with its own extension
NextRecFile ==
    /\ pc = "library_done"
    /\ file_extension' \in Extensions
    /\ pc' = "library"
    /\ UNCHANGED <<pathVars, clockVars, conflict_behavior, download_only, zoomVars,
                   spVars, enumVars, file_k, countVars, fileVars, fs, upVars, log,
                   sp_video_library, sp_audio_library, library_name>>

LibraryNext ==
    \/ SelectLibrary
    \/ NextRecFile

LibrarySpec == LibraryInit /\ [][LibraryNext]_vars

\* ------------------------------------------------------------ token caches
MaxTime == 3600      \* seconds of the run that the clock is followed for
\* timedelta(seconds=data["expires_in"] - 300)
expiry_buffer == 300
\* lifetimes the source issues its tokens with, in seconds
Lifetimes == {600, 3600}
\* the time that passes between two calls, in seconds
Ticks == {300}

\* faulty variant: a token that is held is returned whatever the clock says
ZoomExpired_Never(t, expiry) == FALSE

\* `datetime.now() < self.token_expiry` does not hold
ZoomExpired(t, expiry) == ~(t < expiry)

\* both clients constructed, no token held yet
TokenInit ==
    /\ download_only \in BOOLEAN
    /\ pc = "token_idle"
    /\ zoom_token = FALSE
    /\ sp_token = FALSE
    /\ site_id = FALSE
    /\ members = <<>>
    /\ next_page_token = None
    /\ member_pages = <<>>
    /\ page_count = 0
    /\ member_idx = 0
    /\ recordings = <<>>
    /\ all_recordings = <<>>
    /\ file_k = 0
    /\ total_files = 0
    /\ successful_uploads = 0
    /\ failed_uploads = 0
    /\ rec_file = [url |-> FALSE]
    /\ local_path = None
    /\ fs = {}
    /\ file_size = 0
    /\ uploaded_bytes = 0
    /\ response = 0
    /\ seg = 0
    /\ seg_answers = <<>>
    /\ chunks = <<>>
    /\ log = <<>>
    /\ at_start = [succ |-> 0, fail |-> 0]
    /\ conflict_behavior = None
    /\ meeting_date = <<>>
    /\ date_folder = <<>>
    /\ sp_video_library = None
    /\ sp_audio_library = None
    /\ file_extension = <<>>
    /\ library_name = None
    /\ now = 0
    /\ token_expiry = 0

\* time passes between two calls
Tick ==
    /\ pc = "token_idle"
    /\ now < MaxTime
    /\ \E d \in Ticks : now' = now + d
    /\ UNCHANGED <<pathVars, libVars, conflict_behavior, download_only, pc, zoomVars,
                   spVars, enumVars, file_k, countVars, fileVars, fs, upVars, log,
                   token_expiry>>

\* a request is about to be made for one of the clients, which is asked for
\* its token
CallGetAccessToken ==
    /\ pc = "token_idle"
    /\ \E client \in {"zoom_get", "sp_get"} : pc' = client
    /\ UNCHANGED <<pathVars, libVars, clockVars, conflict_behavior, download_only,
                   zoomVars, spVars, enumVars, file_k, countVars, fileVars, fs,
                   upVars, log>>

\* ZoomClient._get_access_token; log holds what the call did
ZoomGetAccessToken ==
    /\ pc = "zoom_get"
    /\ IF ZoomExchanges(ZoomExpired(now, token_expiry))
       THEN \E ok \in BOOLEAN, expires_in \in Lifetimes :
            IF ZoomTokenFails(ZoomExpired(now, token_expiry), ok)
            THEN /\ log' = <<Call("zoom_exchange", "error")>>
                 /\ UNCHANGED <<zoom_token, token_expiry>>
            ELSE /\ zoom_token' = TRUE
                 /\ token_expiry' = now + expires_in - expiry_buffer
                 /\ log' = <<Call("zoom_exchange", "ok")>>
       ELSE /\ log' = <<Call("zoom_cached", "ok")>>
            /\ UNCHANGED <<zoom_token, token_expiry>>
    /\ pc' = "token_idle"
    /\ UNCHANGED <<pathVars, libVars, conflict_behavior, download_only, spVars,
                   enumVars, file_k, countVars, fileVars, fs, upVars, now>>

\* SharePointClient._get_access_token; log holds what the call did
SpGetAccessToken ==
    /\ pc = "sp_get"
    /\ IF sp_token
       THEN /\ log' = <<Call("sp_cached", "ok")>>
            /\ UNCHANGED sp_token
       ELSE \E ok \in BOOLEAN :
            /\ sp_token' = ~SpTokenFails(ok)
            /\ log' = <<Call("sp_exchange", IF SpTokenFails(ok) THEN "error" ELSE "ok")>>
    /\ pc' = "token_idle"
    /\ UNCHANGED <<pathVars, libVars, clockVars, conflict_behavior, download_only,
                   zoomVars, site_id, enumVars, file_k, countVars, fileVars, fs,
                   upVars>>

TokenNext ==
    \/ Tick
    \/ CallGetAccessToken
    \/ ZoomGetAccessToken
    \/ SpGetAccessToken

TokenSpec == TokenInit /\ [][TokenNext]_vars

\* --------------------------------------------------------------- vocabulary
Calls(op) == {i \in DOMAIN log : log[i].op = op}
Errors == {i \in DOMAIN log : log[i].res = "error"}
UploadCalls == Calls("content") \cup Calls("session") \cup Calls("chunk")

\* a file with a download URL is being processed, or has just been
InFile == file_k > 0 /\ rec_file.url
\* the processing of the current file has ended and the next has not begun
FileEnded == file_k > 0 /\ pc \in {"file_loop", "summary"}
CountedFailed ==
    /\ failed_uploads = at_start.fail + 1
    /\ successful_uploads = at_start.succ
CountedSucceeded ==
    /\ successful_uploads = at_start.succ + 1
    /\ failed_uploads = at_start.fail

\* ------------------------------------------------------------------- claims
\* C1: every error raised in a step of a file's processing is caught, adds
\* exactly one to the failed counter, and the run goes on to the next file.
C1_FailureIsolation ==
    /\ pc = "aborted" => file_k = 0
    /\ (InFile /\ FileEnded /\ Errors # {}) => failed_uploads = at_start.fail + 1

\* C2: the chunk requests of an upload are the ranges [start_i, end_i) with
\* start_1 = 0, start_{i+1} = end_i, start_i < end_i <= S, the last end is S
\* once the upload has completed; the cursor never decreases, never exceeds
\* S, and is the end of the acknowledged ranges, so no range below it is sent
\* again.
ChunksContiguous ==
    \A i \in DOMAIN chunks :
        /\ chunks[i][1] = (IF i = 1 THEN 0 ELSE chunks[i - 1][2])
        /\ chunks[i][1] < chunks[i][2]
        /\ chunks[i][2] <= file_size
\* upload_file has sent the whole body: it is at, or past, the metadata
\* update, or went from the last chunk straight to os.remove
UploadCompleted ==
    \/ pc \in {"up_metadata", "remove"}
    \/ Calls("metadata") # {}
    \/ \E i \in Calls("remove") :
          i > 1 /\ log[i - 1].op = "chunk" /\ log[i - 1].res # "error"
C2_Shape ==
    /\ ChunksContiguous
    /\ uploaded_bytes <= file_size
    /\ chunks # <<>> =>
          /\ file_size >= 4 * 1024 * 1024
          /\ uploaded_bytes \in {chunks[Len(chunks)][1], chunks[Len(chunks)][2]}
          /\ pc = "up_chunk" => uploaded_bytes = chunks[Len(chunks)][2]
    /\ (pc = "up_chunk" /\ chunks = <<>>) => uploaded_bytes = 0
    /\ (UploadCompleted /\ file_size >= 4 * 1024 * 1024) =>
          /\ chunks # <<>>
          /\ chunks[Len(chunks)][2] = file_size
          /\ uploaded_bytes = file_size
C2_Step ==
    pc \in {"up_session", "up_chunk"} =>
        /\ uploaded_bytes' >= uploaded_bytes
        /\ \A i \in DOMAIN chunks : i \in DOMAIN chunks' /\ chunks'[i] = chunks[i]
        /\ \A i \in DOMAIN chunks' :
              i \notin DOMAIN chunks => chunks'[i][1] >= uploaded_bytes
\* C2: the chunk ranges of a file are contiguous from byte 0, none longer
\* than 10 MiB, the last one ends at the file size when the upload completes,
\* and the cursor only ever moves to the end of the chunk just accepted.
C2_ChunkCoverage == []C2_Shape /\ [][C2_Step]_vars
C2_Witness ==
    /\ pc = "up_metadata"
    /\ Len(chunks) >= 2
    /\ chunks[Len(chunks)][2] = file_size

\* C3: below 4 MiB (0 included) the upload is one whole-body content request
\* and no session; from 4 MiB on (4 MiB included) it is one session and then
\* chunk requests only, never a content request.
BodySent == UploadCompleted \/ Calls("content") # {} \/ Calls("chunk") # {}
C3_SizeDispatch ==
    /\ file_size < 4 * 1024 * 1024 =>
          /\ Calls("session") = {} /\ Calls("chunk") = {}
          /\ Cardinality(Calls("content")) <= 1
          /\ BodySent => Cardinality(Calls("content")) = 1
    /\ file_size >= 4 * 1024 * 1024 =>
          /\ Calls("content") = {}
          /\ Cardinality(Calls("session")) <= 1
          /\ BodySent => Cardinality(Calls("session")) = 1
          /\ \A i \in Calls("chunk") : \E j \in Calls("session") : j < i
C3_Witness ==
    /\ pc = "up_metadata"
    /\ file_size = 4 * 1024 * 1024
    /\ Cardinality(Calls("session")) = 1
    /\ Cardinality(Calls("chunk")) = 1

\* C4: a file without a download URL causes no call at all (token, download,
\* folder, upload, metadata, local delete) and changes neither the succeeded
\* nor the failed counter.
C4_SkipNoUrl ==
    (file_k > 0 /\ ~rec_file.url) =>
        /\ log = <<>>
        /\ pc \in {"check_url", "file_loop", "summary"}
        /\ successful_uploads = at_start.succ
        /\ failed_uploads = at_start.fail
C4_Witness ==
    /\ pc = "file_loop"
    /\ file_k > 0
    /\ ~rec_file.url
    /\ total_files = at_start.succ + at_start.fail + 1

\* C5: when create_folder fails (a segment answered neither success nor
\* conflict, or the site or drive could not be resolved), no upload and no
\* metadata request is made for the file and it is counted as failed.
C5_FolderFailureFatal ==
    Calls("create_folder") # {} =>
        /\ UploadCalls = {}
        /\ Calls("metadata") = {}
        /\ FileEnded => CountedFailed

\* C6 (as claimed): outside download-only mode, after a failing answer to a
\* chunk that is not the last one no further chunk is sent, no metadata
\* request is made, the file counts as failed and not as succeeded, and its
\* local copy no longer exists when its processing has ended.  (Stated for
\* the files whose create_folder raised nothing, so that the run that
\* refutes it shows nothing but the chunk's failure.)
IntermediateChunkFailed ==
    /\ ~download_only /\ InFile /\ chunks # <<>>
    /\ \E i \in Calls("chunk") : log[i].res = "error"
    /\ chunks[Len(chunks)][2] < file_size
NoChunkAfterFailure ==
    /\ Len(chunks) = Cardinality(Calls("chunk"))
    /\ \A i \in Calls("chunk") :
          log[i].res = "error" => \A j \in UploadCalls : j <= i
    /\ Calls("metadata") = {}
    /\ pc \in {"except", "file_loop", "summary"}
\* C6 (as claimed): after an error response on a chunk that is not the last,
\* no further chunk and no metadata request is sent, the file is counted as
\* failed, and its local copy is gone when its processing has ended.
C6_Original ==
    (IntermediateChunkFailed /\ Calls("create_folder") = {}) =>
        /\ NoChunkAfterFailure
        /\ FileEnded => (CountedFailed /\ local_path \notin fs)

\* C6 (amended): ... and when its processing has ended exactly one deletion
\* of the local copy has been attempted, and the copy no longer exists
\* unless that deletion itself failed.
C6_IntermediateChunkFailure ==
    IntermediateChunkFailed =>
        /\ NoChunkAfterFailure
        /\ FileEnded =>
              /\ CountedFailed
              /\ Cardinality(Calls("remove")) = 1
              /\ local_path \in fs <=> log[Len(log)] = Call("remove", "error")
C6_Witness ==
    /\ IntermediateChunkFailed
    /\ FileEnded
    /\ local_path \notin fs

\* C7: a chunk answer whose status is not an accepted one aborts the upload:
\* the cursor stays where it was, no further chunk is sent and the upload
\* raises, whatever the status code.  (Stated for the chunks that are not
\* the last one, of the files whose create_folder raised nothing.)
C7_ChunkRejectAborts ==
    (chunks # <<>> /\ response \notin {200, 201, 202}
        /\ chunks[Len(chunks)][2] < file_size
        /\ Calls("create_folder") = {}) =>
        /\ uploaded_bytes = chunks[Len(chunks)][1]
        /\ pc \in {"except", "file_loop", "summary"}
        /\ \E i \in Calls("chunk") :
              log[i].res = "error" /\ \A j \in UploadCalls : j <= i

\* C8: in download-only mode no destination-side call and no local deletion
\* is ever made, and a file whose download succeeded has added one to the
\* succeeded counter and is still on disk; nothing on disk ever goes away, so
\* it is there at the end of the run.
DestinationOps ==
    {"sp_auth", "site", "drives", "mkdir", "create_folder", "content",
     "session", "chunk", "json", "metadata", "remove"}
Downloaded == \E i \in Calls("download") : log[i].res = "ok"
C8_Shape ==
    download_only =>
        /\ \A i \in DOMAIN log : log[i].op \notin DestinationOps
        /\ ~sp_token /\ ~site_id
        /\ (InFile /\ FileEnded /\ Downloaded) =>
              (local_path \in fs /\ CountedSucceeded)
        /\ (InFile /\ FileEnded /\ ~Downloaded) => CountedFailed
C8_Step == download_only => fs \subseteq fs'
\* C8: in download-only mode no destination call (folder, site, drive,
\* upload, metadata) is ever made and no local file is ever deleted.
C8_DownloadOnly == []C8_Shape /\ [][C8_Step]_vars
C8_Witness ==
    /\ download_only
    /\ pc = "summary"
    /\ successful_uploads >= 1
    /\ failed_uploads >= 1
    /\ fs # {}

\* C9 (as claimed): whatever get_group_recordings returns, the empty result
\* included, the run ends by printing the summary.
C9_Original == pc \in {"summary", "no_recordings"} => pc = "summary"

\* C9 (amended): when get_group_recordings returns a non-empty result the
\* run ends, whatever fails per file, by printing the summary after all the
\* files have been visited; on an empty result it returns after the "no
\* recordings" message, without a summary.
C9_Ends ==
    /\ pc = "no_recordings" => all_recordings = <<>>
    /\ pc = "summary" =>
          /\ all_recordings # <<>>
          /\ file_k = Len(AllFiles)
          /\ total_files = Len(AllFiles)
    /\ pc = "aborted" => file_k = 0
\* C9 (amended): the run never aborts after enumeration, and once the file
\* loop has been entered it ends by printing the summary.
C9_RunCompletes ==
    /\ []C9_Ends
    /\ (pc = "file_loop" /\ file_k = 0) ~> (pc = "summary")
C9_Witness ==
    /\ pc = "summary"
    /\ total_files = 2
    /\ failed_uploads = 2

\* C10 (as claimed): whenever a token acquisition fails, for the source or
\* for the destination, the whole run aborts.
AuthFailed(op) == \E i \in Calls(op) : log[i].res = "error"
\* C10 (as claimed): a failed token acquisition, source or destination,
\* leaves the run aborted.
C10_Original ==
    (AuthFailed("zoom_auth") \/ AuthFailed("sp_auth")) => pc = "aborted"

\* C10 (amended): a failed source token acquisition aborts the run only when
\* it happens while the members of the group are listed; at a refresh during
\* a member's recordings listing it is absorbed and that member is skipped;
\* before a file's download it is absorbed as a failure of that file, which
\* adds one to the failed counter; a failed destination token acquisition
\* never aborts the run.
InMembers == file_k = 0 /\ member_idx = 0
C10_AuthFailure ==
    /\ pc = "aborted" => InMembers
    /\ (AuthFailed("zoom_auth") /\ InMembers) => pc = "aborted"
    /\ (AuthFailed("zoom_auth") /\ member_idx > 0) =>
          /\ pc = "get_group_recordings"
          /\ \A i \in DOMAIN all_recordings :
                all_recordings[i].email # members[member_idx - 1]
    /\ (AuthFailed("zoom_auth") /\ file_k > 0) =>
          /\ Calls("download") = {}
          /\ pc \in {"except", "file_loop", "summary"}
          /\ FileEnded => CountedFailed
    /\ AuthFailed("sp_auth") => pc \notin {"aborted", "no_recordings"}
C10_Witness ==
    /\ AuthFailed("zoom_auth")
    /\ pc = "file_loop"
    /\ file_k = 1
    /\ Len(AllFiles) = 2

\* the member whose listing has just ended, and how its last page request
\* ended; `recordings` is what get_user_recordings had collected then, which
\* is what it returns when it does not raise
ListingEnded == pc = "get_group_recordings" /\ log # <<>>
LastMember == members[member_idx - 1]
LastAnswer ==
    IF log[Len(log)].op = "sleep" THEN log[Len(log) - 1].res
    ELSE log[Len(log)].res
HasEntry(email) == \E i \in DOMAIN all_recordings : all_recordings[i].email = email

\* C11: when a page request of get_user_recordings answers 404, on whichever
\* page, the listing raises nothing and returns the empty list; after any
\* other unsuccessful answer it raises and returns nothing, so that nothing
\* of that member is kept.
C11_NotFoundListing ==
    ListingEnded =>
        /\ LastAnswer = "notfound" => recordings = <<>>
        /\ LastAnswer = "error" => ~HasEntry(LastMember)

\* C12: after each member's listing the result holds an entry for that member
\* exactly when the listing succeeded with at least one recording, and the
\* entry maps the member's email to the recordings listed; a member whose
\* listing failed, answered not found or listed nothing has no entry; the
\* entries follow the order of the members, one per email.
C12_GroupEnumeration ==
    /\ ListingEnded =>
          /\ LastAnswer \in {"error", "notfound"} => ~HasEntry(LastMember)
          /\ (LastAnswer = "ok" /\ recordings = <<>>) => ~HasEntry(LastMember)
          /\ (LastAnswer = "ok" /\ recordings # <<>>) =>
                all_recordings[Len(all_recordings)] =
                    [email |-> LastMember, meetings |-> recordings]
    /\ \A i, j \in DOMAIN all_recordings :
          i < j => all_recordings[i].email # all_recordings[j].email
    /\ pc \in {"get_group_recordings", "get_user_recordings"} =>
          /\ member_idx \in 1..(Len(members) + 1)
          /\ \A i \in DOMAIN all_recordings :
                \E k \in 1..(member_idx - 1) : all_recordings[i].email = members[k]

\* every request of the create_folder call was answered 409; what a first,
\* creating call is answered
AllConflict == seg_answers # <<>> /\ \A i \in DOMAIN seg_answers : seg_answers[i] = 409
FirstCallAnswers == [i \in 1..NumSegments |-> 201]
\* C13: a call of create_folder whose every request is answered 409 (the
\* folders exist, as after a first successful call) raises nothing, sends one
\* request per segment, parent before child, and returns what the first call
\* returned.
C13_FolderIdempotent ==
    /\ pc = "cf_segment" => (seg \in 1..NumSegments /\ Len(seg_answers) = seg - 1)
    /\ pc \in {"cf_segment", "up_site"} =>
          Cardinality(Calls("mkdir")) = Len(seg_answers)
    /\ AllConflict => Calls("create_folder") = {}
    /\ (AllConflict /\ pc = "up_site") =>
          /\ Len(seg_answers) = NumSegments
          /\ FolderResult(seg_answers) = FolderResult(FirstCallAnswers)
C13_Witness ==
    /\ pc = "up_site"
    /\ file_k = 2
    /\ AllConflict
    /\ Len(seg_answers) = NumSegments

C14_Shape ==
    /\ (~download_only /\ InFile /\ FileEnded /\ local_path \in fs) =>
          (log # <<>> /\ log[Len(log)] = Call("remove", "error"))
    /\ (InFile /\ pc \in {"zoom_token", "download"} /\ local_path \in fs) =>
          file_k > 1
C14_Step ==
    /\ ~(fs' \subseteq fs) => (pc = "download" /\ fs' = fs \cup {local_path})
    /\ ~(fs \subseteq fs') =>
          /\ ~download_only
          /\ pc \in {"remove", "except"}
          /\ fs' = fs \ {local_path}
Tagged == \E i \in Calls("metadata") : log[i].res = "ok"
TransferFailed == \E i \in Errors : log[i].op # "remove"
\* C15: a failed deletion of the local file changes nothing else: the run is
\* not aborted, a file whose transfer failed counts once as failed, and a
\* file whose upload and tagging succeeded counts as succeeded even when the
\* deletion of its local copy fails.  (Stated for the files whose
\* create_folder raised nothing.)
C15_CleanupFailureSwallowed ==
    (~download_only /\ InFile /\ Calls("create_folder") = {}) =>
        /\ pc # "aborted"
        /\ (FileEnded /\ TransferFailed) => CountedFailed
        /\ (FileEnded /\ Tagged) => CountedSucceeded

\* C16: no two attempted files of a run use the same local path, and a file
\* makes at most one destination item.  Stated through the file system of a
\* download-only run, where nothing is deleted: the path of a file about to
\* be downloaded is not on disk yet, and at the end every file counted as
\* succeeded has a file of its own on disk; and through the requests of a
\* file, which hold at most one upload (one content request or one session).
C16_OnePathOneItem ==
    /\ (download_only /\ InFile /\ pc = "download") => local_path \notin fs
    /\ (download_only /\ pc = "summary") => successful_uploads <= Cardinality(fs)
    /\ Cardinality(Calls("content") \cup Calls("session")) <= 1

\* the path a date is expected to give, from its year, month and day
MonthNames ==
    <<"January", "February", "March", "April", "May", "June", "July",
      "August", "September", "October", "November", "December">>
ExpectedPath(y, m, d) ==
    Pad4(y) \o <<"/">> \o Pad2(m) \o <<" ", "-", " ">> \o <<MonthNames[m]>>
        \o <<"/">> \o IsoDate(y, m, d)
\* C17: for every valid date the folder path is the year, "/", the two-digit
\* month, " - ", the English name of that month, "/" and the date itself; it
\* is a function of the date alone; 2025-12-12 gives
\* 2025/12 - December/2025-12-12.
C17_DateFolderPath ==
    pc = "date_folder_done" =>
        /\ \A y \in Years, m \in 1..12, d \in Days :
              meeting_date = IsoDate(y, m, d) => date_folder = ExpectedPath(y, m, d)
        /\ meeting_date = <<"2", "0", "2", "5", "-", "1", "2", "-", "1", "2">> =>
              date_folder = <<"2", "0", "2", "5", "/", "1", "2", " ", "-", " ",
                              "December", "/",
                              "2", "0", "2", "5", "-", "1", "2", "-", "1", "2">>
C17_Witness ==
    /\ pc = "date_folder_done"
    /\ meeting_date = IsoDate(2025, 12, 12)
    /\ Len(date_folder) = 22

\* C18: outside download-only mode, once the upload of a file has completed
\* exactly one metadata request is made for it, after the upload and before
\* any deletion of the local file; and a file counts as succeeded only after
\* an upload, a successful metadata request and a successful deletion, in
\* that order.  (Stated for the files whose create_folder raised nothing.)
C18_UploadTagDelete ==
    (~download_only /\ InFile /\ Calls("create_folder") = {}) =>
        /\ UploadCompleted =>
              \/ pc = "up_metadata"
              \/ /\ Cardinality(Calls("metadata")) = 1
                 /\ \A r \in Calls("remove") : \E t \in Calls("metadata") : t < r
        /\ \A t \in Calls("metadata") : \E u \in UploadCalls : u < t
        /\ (FileEnded /\ CountedSucceeded) =>
              \E u \in UploadCalls, t \in Calls("metadata"), r \in Calls("remove") :
                  /\ u < t /\ t < r
                  /\ log[t].res = "ok" /\ log[r].res = "ok"

\* requests and failures of create_folder; call i comes after a download
\* that succeeded
FolderCalls == Calls("mkdir") \cup Calls("create_folder")
AfterDownloadOk(i) == \E j \in Calls("download") : j < i /\ log[j].res = "ok"
\* C19 (as claimed): outside download-only mode the folder is ensured before
\* the token is acquired and the download started, and the upload starts
\* after the download.
C19_Original ==
    (~download_only /\ InFile) =>
        /\ \A i \in Calls("zoom_token") \cup Calls("zoom_auth") \cup Calls("download") :
              \E j \in FolderCalls : j < i
        /\ \A i \in UploadCalls : AfterDownloadOk(i)

\* C19 (amended): outside download-only mode the token is acquired first,
\* then the file is downloaded, then, only when the download has succeeded,
\* the folder is ensured, and the upload starts only after the download and
\* after create_folder has returned or raised.
C19_StepOrder ==
    (~download_only /\ InFile) =>
        /\ \A i \in Calls("download") :
              \E j \in Calls("zoom_token") : j < i /\ log[j].res = "ok"
        /\ \A i \in FolderCalls : AfterDownloadOk(i)
        /\ \A i \in UploadCalls :
              /\ AfterDownloadOk(i)
              /\ FolderCalls # {}
              /\ \A j \in FolderCalls : j < i
C19_Witness ==
    /\ ~download_only /\ InFile
    /\ pc = "up_metadata"
    /\ Cardinality(Calls("mkdir")) = NumSegments
    /\ Calls("create_folder") = {}

\* the metadata update of the file failed; nothing but the local deletion
\* follows it
TagFailed ==
    /\ ~download_only /\ InFile
    /\ \E t \in Calls("metadata") : log[t].res = "error"
NoRollback ==
    /\ pc \in {"except", "file_loop", "summary"}
    /\ Cardinality(Calls("metadata")) = 1
    /\ \A t \in Calls("metadata"), i \in DOMAIN log : i > t => log[i].op = "remove"
\* C20 (as claimed): when the upload has succeeded and the metadata update
\* fails, the file counts as failed and not as succeeded, no further request
\* goes to the destination, and its local copy is gone when its processing
\* has ended.  (Stated for the files whose create_folder raised nothing.)
C20_Original ==
    (TagFailed /\ Calls("create_folder") = {}) =>
        /\ NoRollback
        /\ FileEnded => (CountedFailed /\ local_path \notin fs)

\* C20 (amended): ... the file counts as failed and not as succeeded, no
\* further request goes to the destination, exactly one deletion of its local
\* copy is attempted, and the copy is gone when its processing has ended
\* unless that deletion failed.
C20_TagFailure ==
    TagFailed =>
        /\ NoRollback
        /\ FileEnded =>
              /\ CountedFailed
              /\ Cardinality(Calls("remove")) = 1
              /\ local_path \in fs <=> log[Len(log)] = Call("remove", "error")
C20_Witness ==
    /\ TagFailed
    /\ FileEnded
    /\ Cardinality(UploadCalls) >= 1
    /\ local_path \notin fs

\* C21: every upload request of a file, the single content request as well
\* as the creation of the session, names the conflict behaviour "rename", so
\* that an item of the same name at the destination is never replaced.
\* (Stated for the requests that the destination accepted, of the files
\* whose create_folder raised nothing.)
C21_RenameOnConflict ==
    ((\E i \in Calls("content") \cup Calls("session") : log[i].res = "ok")
        /\ Calls("create_folder") = {}) => conflict_behavior = "rename"

\* C22: when the listing of a member has ended, whether it listed recordings,
\* listed nothing, answered not found or failed, get_group_recordings has
\* slept before it turns to the next member.
C22_InterMemberDelay == ListingEnded => log[Len(log)].op = "sleep"

\* the members of the pages listed, in page order
RECURSIVE ConcatPages(_)
ConcatPages(pages) ==
    IF pages = <<>> THEN <<>> ELSE Head(pages).members \o ConcatPages(Tail(pages))
\* get_group_members has just returned
MembersListed == pc = "get_group_recordings" /\ member_idx = 1 /\ member_pages # <<>>
C23_Shape ==
    /\ member_pages # <<>> =>
          /\ member_pages[1].sent = None
          /\ \A i \in 2..Len(member_pages) :
                /\ member_pages[i - 1].next \in PageTokens
                /\ member_pages[i].sent = member_pages[i - 1].next
          /\ pc \in {"get_group_members", "get_group_recordings", "aborted"}
          /\ members = ConcatPages(member_pages)
    /\ (pc = "get_group_members" /\ member_pages # <<>>) =>
          /\ member_pages[Len(member_pages)].next \in PageTokens
          /\ next_page_token = member_pages[Len(member_pages)].next
    /\ MembersListed => member_pages[Len(member_pages)].next \in NoToken
    /\ (\E i \in Calls("members") : log[i].res = "error") => pc = "aborted"
\* C23: get_group_members requests the first page without a token and every
\* later page with the token of the page before, stops at the first page
\* that carries no token and returns the members of all the pages in page
\* order; a failed page request aborts with the error; and, the server
\* ending the pages at some point, the listing terminates.
C23_MemberPagination ==
    /\ []C23_Shape
    /\ (pc = "get_group_members") ~> (pc \in {"get_group_recordings", "aborted"})
C23_Witness ==
    /\ MembersListed
    /\ Len(member_pages) = 2
    /\ members = GroupMembers

\* the library an extension is expected to go to, from its lower-case form
ExpectedLibrary(ext) ==
    IF ext = <<"m", "p", "4">> THEN sp_video_library
    ELSE IF ext \in {<<"m", "4", "a">>, <<"v", "t", "t">>} THEN sp_audio_library
    ELSE sp_video_library
\* C24: whatever the case of its letters, the extension mp4 goes to the video
\* library, m4a and vtt go to the audio library and every other extension,
\* the empty one included, goes to the video library; the library chosen is
\* one of the two configured names.
C24_LibrarySelection ==
    pc = "library_done" =>
        /\ \A ext \in BaseExtensions, upper \in SUBSET (1..3) :
              file_extension = Cased(ext, upper) => library_name = ExpectedLibrary(ext)
        /\ library_name \in {sp_video_library, sp_audio_library}
C24_Witness ==
    /\ pc = "library_done"
    /\ file_extension = <<"M", "4", "A">>
    /\ sp_audio_library # sp_video_library
    /\ library_name = sp_audio_library

\* the files without a download URL among the first k of the run
Skipped(k) == Cardinality({i \in 1..k : ~AllFiles[i].url})
C25_Shape ==
    /\ total_files = file_k
    /\ pc \in {"file_loop", "summary"} =>
          total_files = successful_uploads + failed_uploads + Skipped(file_k)
    /\ (file_k > 0 /\ pc \notin {"file_loop", "summary"}) =>
          total_files - 1 =
              successful_uploads + failed_uploads + Skipped(file_k - 1)
    /\ (FileEnded /\ rec_file.url) =>
          (CountedSucceeded \/ CountedFailed) /\ ~(CountedSucceeded /\ CountedFailed)
    /\ (FileEnded /\ ~rec_file.url) =>
          (successful_uploads = at_start.succ /\ failed_uploads = at_start.fail)
C25_Step ==
    /\ total_files' \in {total_files, total_files + 1}
    /\ successful_uploads' \in {successful_uploads, successful_uploads + 1}
    /\ failed_uploads' \in {failed_uploads, failed_uploads + 1}
    /\ ~(successful_uploads' # successful_uploads /\ failed_uploads' # failed_uploads)
\* C25: in every state of the run each file already processed that had a
\* download URL has added one to exactly one of the succeeded and failed
\* counters, each file without one has added to neither, the total is the
\* sum of succeeded, failed and skipped files, and no counter ever decreases.
C25_CounterAccounting == []C25_Shape /\ [][C25_Step]_vars
C25_Witness ==
    /\ pc = "summary"
    /\ total_files = 2
    /\ Skipped(2) = 1
    /\ successful_uploads = 1
    /\ failed_uploads = 0

C26_Step ==
    /\ sp_token => sp_token'
    /\ pc = "sp_get" => (log'[1].op = "sp_exchange" <=> ~sp_token)
    /\ pc = "zoom_get" =>
          /\ log'[1].op = "zoom_exchange" <=> (~zoom_token \/ now >= token_expiry)
          /\ log'[1].res = "ok" => (zoom_token' /\ now' < token_expiry')
          /\ log'[1] = Call("zoom_exchange", "ok") =>
                \E lifetime \in Lifetimes : token_expiry' = now + lifetime - 300
          /\ log'[1] # Call("zoom_exchange", "ok") => token_expiry' = token_expiry
====
